---- MODULE Spec2Model ----
(***************************************************************************)
(* hash-box: a content-addressable snapshot store.                         *)
(*                                                                         *)
(* State: one Store value (its in-memory HashSet<Node> `data`), and the    *)
(* two artifacts of the store home it works on: the registry file and the  *)
(* flat objects directory.  The source file system the user adds from is   *)
(* a fixed catalogue of paths (SrcFS).                                     *)
(*                                                                         *)
(* Spec      one process, every call of Store one step                     *)
(* SpecStep  one process, save() step by step, with crashes inside it      *)
(* SpecWalk  one process, a source tree with an unreadable directory       *)
(* SpecMulti two processes (`data`, `peer`) on the same home               *)
(***************************************************************************)
EXTENDS Integers, Sequences, FiniteSets, TLC

VARIABLES
    data,       \* Store.data : HashSet<Node> of the live Store value
    regFile,    \* content of <home>/CONFIG_NAME: NoFile or a sequence of Nodes
    objects,    \* <home>/STORE_DIRECTORY: file name (digest) -> file content
    tmpFile,    \* the temporary file AtomicFile writes before renaming
    pc,         \* position inside save() for the stepwise specification
    last,       \* the last call: operation, arguments, result, state before
    peer,       \* Store.data of a second process working on the same home
    hist        \* per process: what its calls have done so far

vars == <<data, regFile, objects, tmpFile, pc, last, peer, hist>>

----------------------------------------------------------------------------
(* Bounds *)

\* number of distinct byte contents of generated source files
MaxContent == 3

Contents == 1..MaxContent

----------------------------------------------------------------------------
(* Content digest *)

\* width of the digest space: digests are the values 0 .. DigestSpace-1
DigestSpace == 16

\* crate::util::md5: a deterministic fixed-width digest of the bytes;
\* injective on the contents of the catalogue (no collisions)
md5(c) == (7 * c + 3) % DigestSpace

\* the digest of Node::sample, String::new()
EmptyDigest == 0 - 1

----------------------------------------------------------------------------
(* The source file system *)

NoEntry == [kind |-> "none"]
SrcFile(n, c) == [name |-> n, kind |-> "file", content |-> c]
SrcLink(n, t) == [name |-> n, kind |-> "symlink", target |-> t]
SrcDir(n, ch) == [name |-> n, kind |-> "dir", children |-> ch]

\* a directory whose entries cannot be listed (read_dir fails)
SrcLocked(n, ch) == [name |-> n, kind |-> "dir", children |-> ch, locked |-> TRUE]

\* byte-wise order of the file names in use (sort_by_file_name)
NameOrder ==
    <<"a.txt", "b.txt", "docs", "k.txt", "lnk", "m.txt", "n.txt", "priv", "proj",
      "s.txt", "solo", "sub", "vault">>

Rank(n) == CHOOSE i \in 1..Len(NameOrder) : NameOrder[i] = n

\* the spec's concrete scenario: two files with the same bytes in one tree
ProjTree ==
    SrcDir("proj", {SrcFile("a.txt", 1), SrcDir("sub", {SrcFile("b.txt", 1)})})

\* a tree with a symlink and two files of different bytes, one of them in
\* a subdirectory
DocsTree ==
    SrcDir("docs", {SrcDir("sub", {SrcFile("n.txt", 2)}),
                    SrcLink("lnk", "t"), SrcFile("m.txt", 1)})

\* a tree with a subdirectory that cannot be listed
VaultTree ==
    SrcDir("vault", {SrcFile("k.txt", 1), SrcLocked("priv", {SrcFile("s.txt", 2)})})

\* the paths add() is called with: directory 0 holds the trees above, a
\* symlink and a missing entry; directory c holds a plain file "solo" of
\* content c
Paths ==
    {[dir |-> 0, base |-> b] : b \in {"proj", "docs", "solo", "gone"}}
    \cup {[dir |-> c, base |-> "solo"] : c \in Contents}

SrcFS(p) ==
    IF p.dir = 0
    THEN CASE p.base = "proj" -> ProjTree
           [] p.base = "docs" -> DocsTree
           [] p.base = "solo" -> SrcLink("solo", "t")
           [] p.base = "vault" -> VaultTree
           [] OTHER -> NoEntry
    ELSE SrcFile(p.base, p.dir)

\* Path::exists
Exists(p) == SrcFS(p).kind # "none"

\* Path::file_name
FileName(p) == p.base

\* src.join(name) inside a source directory
Child(e, n) == CHOOSE c \in e.children : c.name = n

----------------------------------------------------------------------------
(* Node *)

FILE(d) == [kind |-> "FILE", value |-> d]
SYMLINK(t) == [kind |-> "SYMLINK", path |-> t]
DIRECTORY(v) == [kind |-> "DIRECTORY", vec |-> v]

Node(n, m) == [name |-> n, meta |-> m]

\* faulty variant: equality derived over every field
NodeEqDerived(a, b) == a = b

\* impl PartialEq for Node: by name alone
NodeEq(a, b) == a.name = b.name

\* Node::sample
Sample(s) == Node(s, FILE(EmptyDigest))

\* TryFrom<&Path> for Node / Node::new, on an existing entry
NodeNew(e) ==
    Node(e.name,
         CASE e.kind = "symlink" -> SYMLINK(e.target)
           [] e.kind = "dir" -> DIRECTORY(<<>>)
           [] OTHER -> FILE(md5(e.content)))

----------------------------------------------------------------------------
(* HashSet<Node> *)

Contains(set, n) == \E m \in set : NodeEq(m, n)

\* HashSet::remove
Remove(set, n) == {m \in set : ~NodeEq(m, n)}

\* faulty variant: HashSet::replace: the new element takes the place of an equal one
InsertReplace(set, n) == Remove(set, n) \cup {n}

\* HashSet::insert: an equal element already present is kept
Insert(set, n) == IF Contains(set, n) THEN set ELSE set \cup {n}

\* HashSet::get
GetNode(set, n) == CHOOSE m \in set : NodeEq(m, n)

\* HashSet::extend / FromIterator: insert the items in order
RECURSIVE Extend(_, _)
Extend(set, seq) ==
    IF seq = <<>> THEN set ELSE Extend(Insert(set, Head(seq)), Tail(seq))

----------------------------------------------------------------------------
(* Tree Builder *)

\* WalkDir ... sort_by_file_name: the entries of a directory, by name
RECURSIVE SortByFileName(_)
SortByFileName(S) ==
    IF S = {} THEN <<>>
    ELSE LET first == CHOOSE x \in S : \A y \in S : Rank(x.name) <= Rank(y.name)
         IN  <<first>> \o SortByFileName(S \ {first})

\* the entries WalkDir yields below a directory after
\* .filter_map(|f| f.ok()): the error of a failed listing is dropped
Walk(e) == IF "locked" \in DOMAIN e THEN {} ELSE e.children

\* Store::build
RECURSIVE build(_)
build(e) ==
    LET root == NodeNew(e)
    IN  IF e.kind = "dir"
        THEN LET entries == SortByFileName(Walk(e))
             IN  Node(root.name,
                      DIRECTORY([i \in 1..Len(entries) |->
                                    IF entries[i].kind = "dir"
                                    THEN build(entries[i])
                                    ELSE NodeNew(entries[i])]))
        ELSE root

----------------------------------------------------------------------------
(* Content Linker *)

\* std::fs::hard_link(src, objects/<d>): fails when objects/<d> exists
hard_link(content, d, objs) ==
    IF d \in DOMAIN objs
    THEN [ok |-> FALSE, objs |-> objs]
    ELSE [ok |-> TRUE, objs |-> (d :> content) @@ objs]

\* Store::links; the `?` stops the walk at the first failing link
RECURSIVE links(_, _, _)
RECURSIVE linksVec(_, _, _, _)
links(root, src, objs) ==
    CASE root.meta.kind = "FILE" -> hard_link(src.content, root.meta.value, objs)
      [] root.meta.kind = "SYMLINK" -> [ok |-> TRUE, objs |-> objs]
      [] OTHER -> linksVec(root.meta.vec, src, 1, objs)

linksVec(vec, src, i, objs) ==
    IF i > Len(vec) THEN [ok |-> TRUE, objs |-> objs]
    ELSE LET r == links(vec[i], Child(src, vec[i].name), objs)
         IN  IF r.ok THEN linksVec(vec, src, i + 1, r.objs) ELSE r

----------------------------------------------------------------------------
(* Store::add *)

\* faulty variant: add without the check that the name is already registered
AddResultNoCheck(d, objs, path) ==
    IF Exists(path)
    THEN LET root == build(SrcFS(path))
             r == links(root, SrcFS(path), objs)
         IN  IF r.ok
             THEN [ok |-> TRUE, data |-> Insert(d, root), objs |-> r.objs]
             ELSE [ok |-> FALSE, data |-> d, objs |-> r.objs]
    ELSE [ok |-> TRUE, data |-> d, objs |-> objs]

\* the result and the state add(path) leaves, from registry d and store objs
AddResult(d, objs, path) ==
    IF Exists(path)
    THEN IF ~Contains(d, NodeNew(SrcFS(path)))
         THEN LET root == build(SrcFS(path))
                  r == links(root, SrcFS(path), objs)
              IN  IF r.ok
                  THEN [ok |-> TRUE, data |-> Insert(d, root), objs |-> r.objs]
                  ELSE [ok |-> FALSE, data |-> d, objs |-> r.objs]
         ELSE [ok |-> TRUE, data |-> d, objs |-> objs]
    ELSE [ok |-> TRUE, data |-> d, objs |-> objs]

----------------------------------------------------------------------------
(* Registry Persistence *)

\* the registry file: absent, or holding a serialized entry array
NoFile == [exists |-> FALSE, content |-> <<>>]
FileOf(s) == [exists |-> TRUE, content |-> s]

\* hash_set::Iter: the elements in the iteration order of the set, which is
\* unspecified
RECURSIVE Iter(_)
Iter(set) ==
    IF set = {} THEN {<<>>}
    ELSE UNION {{<<x>> \o s : s \in Iter(set \ {x})} : x \in set}

\* faulty variant: a serializer that skips the children of a directory
to_stringShallow(set) ==
    Iter({IF n.meta.kind = "DIRECTORY" THEN Node(n.name, DIRECTORY(<<>>)) ELSE n
             : n \in set})

\* serde_json::to_string(&HashSet<Node>): the entries as an array
to_string(set) == Iter(set)

\* serde_json::from_str::<HashSet<Node>>: the array's items inserted in order
from_str(content) == Extend({}, content)

\* Store::load: the registries it can leave
LoadResults(d, file) ==
    IF file.exists
    THEN {Extend(d, s) : s \in Iter(from_str(file.content))}
    ELSE {d}

----------------------------------------------------------------------------
(* Store::delete *)

\* faulty variant: removal of the element equal to the sample in every field
DeleteResultByValue(d, name) == d \ {Sample(name)}

DeleteResult(d, name) == Remove(d, Sample(name))

----------------------------------------------------------------------------
(* Garbage Collector *)

\* faulty variant: a mark phase that does not descend into directories
dfsShallow(node) == IF node.meta.kind = "FILE" THEN {node.meta.value} ELSE {}

\* fn dfs inside Store::clear: the digests of the File nodes below a node
RECURSIVE dfs(_)
dfs(node) ==
    CASE node.meta.kind = "FILE" -> {node.meta.value}
      [] node.meta.kind = "DIRECTORY" ->
            UNION {dfs(node.meta.vec[i]) : i \in 1..Len(node.meta.vec)}
      [] OTHER -> {}

\* tmp: the digests referenced by the registry
Marked(d) == UNION {dfs(n) : n \in d}

\* res: names.difference(&tmp)
Sweep(d, objs) == DOMAIN objs \ Marked(d)

\* faulty variant: a sweep that removes no file
WithoutNone(objs, D) == objs

\* the object store without the files of D
Without(objs, D) == [x \in DOMAIN objs \ D |-> objs[x]]

\* the outcomes of Store::clear when remove_file fails on the files of
\* `stuck`: the loop runs over res in an unspecified order and `?` leaves it
\* at the first failure
ClearResults(d, objs, stuck) ==
    LET res == Sweep(d, objs)
    IN  IF res \cap stuck = {}
        THEN {[ok |-> TRUE, objs |-> Without(objs, res)]}
        ELSE {[ok |-> FALSE, objs |-> Without(objs, D)] : D \in SUBSET (res \ stuck)}

----------------------------------------------------------------------------
(* Recoverer *)

\* Store::recover into a fresh destination: what it returns and the entry
\* it has created there (NoEntry when nothing was created)
RECURSIVE recover(_, _)
RECURSIVE recoverVec(_, _, _, _)
recover(node, objs) ==
    CASE node.meta.kind = "FILE" ->
            IF node.meta.value \in DOMAIN objs
            THEN [ok |-> TRUE, made |-> SrcFile(node.name, objs[node.meta.value])]
            ELSE [ok |-> FALSE, made |-> NoEntry]
      [] node.meta.kind = "SYMLINK" ->
            [ok |-> TRUE, made |-> SrcLink(node.name, node.meta.path)]
      [] OTHER ->
            LET r == recoverVec(node.meta.vec, objs, 1, {})
            IN  [ok |-> r.ok, made |-> SrcDir(node.name, r.made)]

recoverVec(vec, objs, i, made) ==
    IF i > Len(vec) THEN [ok |-> TRUE, made |-> made]
    ELSE LET r == recover(vec[i], objs)
             now == IF r.made = NoEntry THEN made ELSE made \cup {r.made}
         IN  IF r.ok THEN recoverVec(vec, objs, i + 1, now)
             ELSE [ok |-> FALSE, made |-> now]

\* the kinds of destination get() is called with
DstKinds == {"dir", "missing", "file"}

\* faulty variant: get that looks the name up before it checks dst
GetResultLookupFirst(d, objs, name, dst) ==
    IF ~Contains(d, Sample(name))
    THEN [ok |-> FALSE, made |-> NoEntry, err |-> "name not exists"]
    ELSE IF dst = "missing"
    THEN [ok |-> FALSE, made |-> NoEntry, err |-> "dst not exits"]
    ELSE IF dst = "file"
    THEN [ok |-> FALSE, made |-> NoEntry, err |-> "dst is a file"]
    ELSE LET r == recover(GetNode(d, Sample(name)), objs)
         IN  [ok |-> r.ok, made |-> r.made, err |-> IF r.ok THEN "" ELSE "io"]

\* Store::get: what it returns (err is the bail! message, "io" for an error
\* of recover) and the entry it has created under dst
GetResult(d, objs, name, dst) ==
    IF dst = "missing"
    THEN [ok |-> FALSE, made |-> NoEntry, err |-> "dst not exits"]
    ELSE IF dst = "file"
    THEN [ok |-> FALSE, made |-> NoEntry, err |-> "dst is a file"]
    ELSE IF ~Contains(d, Sample(name))
    THEN [ok |-> FALSE, made |-> NoEntry, err |-> "name not exists"]
    ELSE LET r == recover(GetNode(d, Sample(name)), objs)
         IN  [ok |-> r.ok, made |-> r.made, err |-> IF r.ok THEN "" ELSE "io"]

----------------------------------------------------------------------------
(* The calls *)

NoPath == [dir |-> 0 - 1, base |-> ""]

Idle == [at |-> "idle", s |-> <<>>]

\* the record of a call: what was called, what it returned, and the state
\* it started from
Call(op, path, name, dst, ok, made, s) ==
    [op |-> op, path |-> path, name |-> name, dst |-> dst, ok |-> ok,
     made |-> made, s |-> s, err |-> "", stuck |-> {}, by |-> "A",
     data0 |-> data, objects0 |-> objects, file0 |-> regFile]

\* the two processes: A owns `data`, B owns `peer`
Procs == {"A", "B"}

NoHist ==
    [loaded |-> [p \in Procs |-> FALSE],
     added |-> [p \in Procs |-> {}],
     linked |-> [p \in Procs |-> {}],
     saved |-> [p \in Procs |-> [done |-> FALSE, set |-> {}]],
     swept |-> [p \in Procs |-> {}]]

\* a call of the only process at work
Alone == UNCHANGED <<peer, hist>>

Init ==
    /\ peer = {}
    /\ hist = NoHist
    /\ data = {}
    /\ regFile = NoFile
    /\ objects = <<>>
    /\ tmpFile = NoFile
    /\ pc = Idle
    /\ last = [op |-> "new", path |-> NoPath, name |-> "", dst |-> "",
               ok |-> TRUE, made |-> NoEntry, s |-> <<>>,
               err |-> "", stuck |-> {}, by |-> "A",
               data0 |-> {}, objects0 |-> <<>>, file0 |-> NoFile]

\* Store::new on the same home: a fresh Store value replaces the live one
New ==
    /\ pc.at = "idle"
    /\ Alone
    /\ data' = {}
    /\ last' = Call("new", NoPath, "", "", TRUE, NoEntry, <<>>)
    /\ UNCHANGED <<regFile, objects, tmpFile, pc>>

Load ==
    /\ pc.at = "idle"
    /\ Alone
    /\ data' \in LoadResults(data, regFile)
    /\ last' = Call("load", NoPath, "", "", TRUE, NoEntry, <<>>)
    /\ UNCHANGED <<regFile, objects, tmpFile, pc>>

\* Store::save as one call
Save ==
    /\ pc.at = "idle"
    /\ Alone
    /\ \E s \in to_string(data) :
          /\ regFile' = FileOf(s)
          /\ last' = Call("save", NoPath, "", "", TRUE, NoEntry, s)
    /\ UNCHANGED <<data, objects, tmpFile, pc>>

Add(path) ==
    /\ pc.at = "idle"
    /\ Alone
    /\ LET r == AddResult(data, objects, path)
       IN  /\ data' = r.data
           /\ objects' = r.objs
           /\ last' = Call("add", path, FileName(path), "", r.ok, NoEntry, <<>>)
    /\ UNCHANGED <<regFile, tmpFile, pc>>

Delete(name) ==
    /\ pc.at = "idle"
    /\ Alone
    /\ data' = DeleteResult(data, name)
    /\ last' = Call("delete", NoPath, name, "", TRUE, NoEntry, <<>>)
    /\ UNCHANGED <<regFile, objects, tmpFile, pc>>

Clear ==
    /\ pc.at = "idle"
    /\ Alone
    /\ \E stuck \in SUBSET DOMAIN objects :
       \E r \in ClearResults(data, objects, stuck) :
          /\ objects' = r.objs
          /\ last' = [Call("clear", NoPath, "", "", r.ok, NoEntry, <<>>)
                          EXCEPT !.stuck = stuck]
    /\ UNCHANGED <<data, regFile, tmpFile, pc>>

Get(name, dst) ==
    /\ pc.at = "idle"
    /\ Alone
    /\ LET r == GetResult(data, objects, name, dst)
       IN  last' = [Call("get", NoPath, name, dst, r.ok, r.made, <<>>)
                       EXCEPT !.err = r.err]
    /\ UNCHANGED <<data, regFile, objects, tmpFile, pc>>

\* the root names delete() and get() are called with
RootNames == {p.base : p \in {q \in Paths : Exists(q)}}

Next ==
    \/ New
    \/ Load
    \/ Save
    \/ \E path \in Paths : Add(path)
    \/ \E name \in RootNames : Delete(name)
    \/ Clear
    \/ \E name \in RootNames, dst \in DstKinds : Get(name, dst)

Spec == Init /\ [][Next]_vars

----------------------------------------------------------------------------
(* Store::save step by step: AtomicFile::write creates a temporary file,  *)
(* write_all fills it, and the temporary file is renamed over the registry *)
(* file.  The process can die between any two steps.                       *)

\* faulty variant: a save that writes the registry file in place
WriteChunkInPlace(tmp, file, s) ==
    [tmp |-> FileOf(Append(tmp.content, s[Len(tmp.content) + 1])),
     file |-> FileOf(Append(tmp.content, s[Len(tmp.content) + 1]))]

\* one write of write_all: the next record goes to the temporary file
WriteChunk(tmp, file, s) ==
    [tmp |-> FileOf(Append(tmp.content, s[Len(tmp.content) + 1])), file |-> file]

SaveBegin ==
    /\ pc.at = "idle"
    /\ Alone
    /\ \E s \in to_string(data) :
          /\ pc' = [at |-> "write", s |-> s]
          /\ last' = Call("saving", NoPath, "", "", FALSE, NoEntry, s)
    /\ tmpFile' = FileOf(<<>>)
    /\ UNCHANGED <<data, regFile, objects>>

SaveWrite ==
    /\ pc.at = "write"
    /\ Alone
    /\ Len(tmpFile.content) < Len(pc.s)
    /\ LET w == WriteChunk(tmpFile, regFile, pc.s)
       IN  /\ tmpFile' = w.tmp
           /\ regFile' = w.file
    /\ UNCHANGED <<data, objects, pc, last>>

SaveRename ==
    /\ pc.at = "write"
    /\ Alone
    /\ tmpFile.content = pc.s
    /\ regFile' = tmpFile
    /\ tmpFile' = NoFile
    /\ pc' = Idle
    /\ last' = [last EXCEPT !.op = "save", !.ok = TRUE]
    /\ UNCHANGED <<data, objects>>

\* the process dies inside save(): the Store value is gone, the temporary
\* file stays behind, and the next process starts with a fresh Store
Crash ==
    /\ pc.at = "write"
    /\ Alone
    /\ data' = {}
    /\ pc' = Idle
    /\ last' = [last EXCEPT !.op = "crash"]
    /\ UNCHANGED <<regFile, objects, tmpFile>>

NextStep ==
    \/ New
    \/ Load
    \/ \E path \in Paths : Add(path)
    \/ \E name \in RootNames : Delete(name)
    \/ SaveBegin
    \/ SaveWrite
    \/ SaveRename
    \/ Crash

SpecStep == Init /\ [][NextStep]_vars

----------------------------------------------------------------------------
(* Adding from a source tree that holds an unreadable directory *)

WalkPaths == Paths \cup {[dir |-> 0, base |-> "vault"]}

WalkNames == {p.base : p \in {q \in WalkPaths : Exists(q)}}

NextWalk ==
    \/ New
    \/ \E path \in WalkPaths : Add(path)
    \/ \E name \in WalkNames : Delete(name)
    \/ Clear

SpecWalk == Init /\ [][NextWalk]_vars

----------------------------------------------------------------------------
(* Two processes on one store home.  Each has its own Store value; the     *)
(* registry file and the objects directory are shared and not locked, so   *)
(* the calls of the two processes interleave freely.                       *)

Other(p) == IF p = "A" THEN "B" ELSE "A"

\* Store.data of process p
StoreOf(p) == IF p = "A" THEN data ELSE peer

\* process p's Store.data becomes v
SetStore(p, v) ==
    IF p = "A" THEN data' = v /\ peer' = peer ELSE peer' = v /\ data' = data

\* the paths the two processes add: a tree and a file of other bytes
MultiPaths == {[dir |-> 0, base |-> "docs"], [dir |-> 3, base |-> "solo"]}

\* a call of process p
CallBy(p, op, path, name, ok, s) ==
    [Call(op, path, name, "", ok, NoEntry, s) EXCEPT !.by = p, !.data0 = StoreOf(p)]

PLoad(p) ==
    /\ pc.at = "idle"
    /\ \E d \in LoadResults(StoreOf(p), regFile) : SetStore(p, d)
    /\ hist' = [hist EXCEPT !.loaded[p] = TRUE]
    /\ last' = CallBy(p, "load", NoPath, "", TRUE, <<>>)
    /\ UNCHANGED <<regFile, objects, tmpFile, pc>>

PAdd(p, path) ==
    /\ pc.at = "idle"
    /\ LET r == AddResult(StoreOf(p), objects, path)
       IN  /\ SetStore(p, r.data)
           /\ objects' = r.objs
           /\ hist' = [hist EXCEPT
                          !.linked[p] = @ \cup (DOMAIN r.objs \ DOMAIN objects),
                          !.added[p] = @ \cup {n.name : n \in r.data \ StoreOf(p)}]
           /\ last' = CallBy(p, "add", path, FileName(path), r.ok, <<>>)
    /\ UNCHANGED <<regFile, tmpFile, pc>>

PSave(p) ==
    /\ pc.at = "idle"
    /\ \E s \in to_string(StoreOf(p)) :
          /\ regFile' = FileOf(s)
          /\ last' = CallBy(p, "save", NoPath, "", TRUE, s)
    /\ hist' = [hist EXCEPT !.saved[p] = [done |-> TRUE, set |-> StoreOf(p)]]
    /\ UNCHANGED <<data, peer, objects, tmpFile, pc>>

\* clear() of process p; every remove_file succeeds.  hist.swept[p] collects
\* the objects it deletes that an add of the other process has linked and
\* the other process's registry references
PClear(p) ==
    /\ pc.at = "idle"
    /\ \E r \in ClearResults(StoreOf(p), objects, {}) :
          /\ objects' = r.objs
          /\ hist' = [hist EXCEPT
                         !.swept[p] = @ \cup
                            ((DOMAIN objects \ DOMAIN r.objs)
                                \cap hist.linked[Other(p)]
                                \cap Marked(StoreOf(Other(p))))]
          /\ last' = CallBy(p, "clear", NoPath, "", r.ok, <<>>)
    /\ UNCHANGED <<data, peer, regFile, tmpFile, pc>>

NextMulti ==
    \/ \E p \in Procs : PLoad(p)
    \/ \E p \in Procs, path \in MultiPaths : PAdd(p, path)
    \/ \E p \in Procs : PSave(p)
    \/ \E p \in Procs : PClear(p)

SpecMulti == Init /\ [][NextMulti]_vars

----------------------------------------------------------------------------
(* Vocabulary of the properties, stated without the operators of the code *)

\* a node and every node below it
RECURSIVE Descendants(_)
Descendants(node) ==
    {node} \cup
    (IF node.meta.kind = "DIRECTORY"
     THEN UNION {Descendants(node.meta.vec[i]) : i \in 1..Len(node.meta.vec)}
     ELSE {})

\* the digests of the File nodes reachable from the roots of a registry
Referenced(d) ==
    {n.meta.value : n \in {m \in UNION {Descendants(r) : r \in d} :
                              m.meta.kind = "FILE"}}

\* the contents of the regular files of a source entry, one per file
RECURSIVE FileContents(_)
FileContents(e) ==
    CASE e.kind = "file" -> <<e.content>>
      [] e.kind = "dir" ->
            LET RECURSIVE Cat(_)
                Cat(S) == IF S = {} THEN <<>>
                          ELSE LET x == CHOOSE y \in S : TRUE
                               IN  FileContents(x) \o Cat(S \ {x})
            IN  Cat(e.children)
      [] OTHER -> <<>>

Range(s) == {s[i] : i \in 1..Len(s)}

\* two regular files of the entry hold the same bytes
HasTwins(e) == Cardinality(Range(FileContents(e))) < Len(FileContents(e))

RECURSIVE HasSymlink(_)
HasSymlink(e) ==
    CASE e.kind = "symlink" -> TRUE
      [] e.kind = "dir" -> \E c \in e.children : HasSymlink(c)
      [] OTHER -> FALSE

\* some directory of the entry cannot be listed
RECURSIVE HasUnreadable(_)
HasUnreadable(e) ==
    /\ e.kind = "dir"
    /\ \/ "locked" \in DOMAIN e
       \/ \E c \in e.children : HasUnreadable(c)

\* the root entry of a registry with the given name
Named(d, n) == {m \in d : m.name = n}

\* the call was an add that went on to capture the tree at its path: the
\* path exists and its base name was not a root entry
Captured(c) ==
    /\ c.op = "add"
    /\ c.path \in Paths
    /\ SrcFS(c.path).kind # "none"
    /\ Named(c.data0, c.name) = {}

\* every object of the store before the call is still there, unchanged
ObjectsKept(c) ==
    \A x \in DOMAIN c.objects0 : x \in DOMAIN objects /\ objects[x] = c.objects0[x]

----------------------------------------------------------------------------
(* C1 - C3, C8: what add does with content that is already stored *)

\* C1: every add(path) either returns Ok with a root entry for path's base
\* name in the registry and an object for every File digest of the captured
\* tree, or returns an error and leaves the registry as it was.
C1_AddAllOrNothing ==
    last.op = "add" =>
        \/ /\ last.ok
           /\ Named(data, last.name) # {}
           /\ Captured(last) => Referenced(Named(data, last.name)) \subseteq DOMAIN objects
        \/ /\ ~last.ok
           /\ data = last.data0

\* C2: when add links a File node whose digest already names an object (left
\* by an earlier add, by a deleted root, or by an earlier file of the same
\* tree), the link is a no-op: add returns Ok and the stored objects are
\* unchanged.
C2_LinkExistingIsNoop ==
    ( /\ Captured(last)
      /\ \/ HasTwins(SrcFS(last.path))
         \/ \E c \in Range(FileContents(SrcFS(last.path))) : md5(c) \in DOMAIN last.objects0 )
    => /\ last.ok
       /\ ObjectsKept(last)

\* C3: adding a source file whose bytes equal those of another file, of the
\* same tree or of a registered root, succeeds; the registry then holds the
\* File nodes of both and the store one object for their digest.
C3_Dedup ==
    ( /\ Captured(last)
      /\ \/ HasTwins(SrcFS(last.path))
         \/ \E c \in Range(FileContents(SrcFS(last.path))) : md5(c) \in Referenced(last.data0) )
    => /\ last.ok
       /\ \A c \in Range(FileContents(SrcFS(last.path))) :
             /\ md5(c) \in Referenced(Named(data, last.name))
             /\ md5(c) \in DOMAIN objects
       /\ Referenced(last.data0) \subseteq Referenced(data)

\* C8: the round trip of a tree without symlinks succeeds at every step: the
\* add of the tree under a new name returns Ok and registers it, and a get of
\* a registered symlink-free tree whose objects are stored, into an existing
\* directory, returns Ok and creates the tree the registry entry describes
\* (same names, same nesting, the bytes of the objects).
C8_RoundTrip ==
    /\ (Captured(last) /\ ~HasSymlink(SrcFS(last.path)))
          => (last.ok /\ Named(data, last.name) # {})
    /\ ( /\ last.op = "get"
         /\ last.dst = "dir"
         /\ Named(data, last.name) # {}
         /\ Referenced(Named(data, last.name)) \subseteq DOMAIN objects )
          => /\ last.ok
             /\ \A p \in Paths :
                   (p.base = last.name /\ SrcFS(p).kind # "none"
                       /\ {build(SrcFS(p))} = Named(data, last.name)
                       /\ \A c \in Range(FileContents(SrcFS(p))) : objects[md5(c)] = c)
                   => last.made = SrcFS(p)

----------------------------------------------------------------------------
(* C4 - C7, C9, C10 *)

C5_DeleteFrame ==
    last.op = "delete" =>
        /\ data = {m \in last.data0 : m.name # last.name}
        /\ objects = last.objects0
        /\ regFile = last.file0

\* a delete that removed a root and left objects no root references
C5_Witness ==
    /\ last.op = "delete"
    /\ Named(last.data0, last.name) # {}
    /\ DOMAIN objects \ Referenced(data) # {}
    /\ DOMAIN last.objects0 \subseteq Referenced(last.data0)

\* C6: after load() the in-memory registry is the registry before the call
\* plus the persisted root entries whose names it did not have; an entry
\* present under the same name in both stays as it was in memory.  Without
\* a registry file load changes nothing.
C6_LoadKeepsExisting ==
    last.op = "load" =>
        /\ data = last.data0 \cup
                  (IF last.file0.exists
                   THEN {m \in Range(last.file0.content) : Named(last.data0, m.name) = {}}
                   ELSE {})
        /\ ~last.file0.exists => (last.ok /\ data = last.data0)

\* a load where the file held a root under a name the registry had with
\* another tree, and a root under a name it did not have
C6_Witness ==
    /\ last.op = "load"
    /\ last.file0.exists
    /\ \E m \in Range(last.file0.content) :
          \E n \in last.data0 : m.name = n.name /\ m # n
    /\ \E m \in Range(last.file0.content) : Named(last.data0, m.name) = {}

\* C9: add on a path whose base name is a root entry of the in-memory
\* registry returns Ok and changes neither the registry nor the object store.
C9_AddIdempotent ==
    (last.op = "add" /\ Named(last.data0, last.name) # {}) =>
        /\ last.ok
        /\ data = last.data0
        /\ objects = last.objects0

\* the second add of an unchanged directory tree
C9_Witness ==
    /\ last.op = "add"
    /\ last.path \in Paths
    /\ SrcFS(last.path).kind = "dir"
    /\ Named(last.data0, last.name) = {build(SrcFS(last.path))}
    /\ Cardinality(data) = 1

\* C10: the registry's root set holds at most one entry per name.
C10_UniqueNames ==
    \A m \in data : \A n \in data : m.name = n.name => m = n

\* an add of a path whose base name is registered with another kind of entry
C10_Witness ==
    /\ last.op = "add"
    /\ last.path \in Paths
    /\ SrcFS(last.path).kind # "none"
    /\ \E m \in last.data0 :
          /\ m.name = last.name
          /\ m.meta.kind # NodeNew(SrcFS(last.path)).meta.kind
    /\ Cardinality(data) >= 2

\* C7: at every point, also inside save() and after a crash inside it, the
\* registry file holds the complete entry array it held before the call or
\* the complete array being saved.
C7_AtomicRegistry ==
    \/ regFile = last.file0
    \/ /\ last.op \in {"saving", "save", "crash"}
       /\ regFile = FileOf(last.s)

\* a crash inside save() with the temporary file partly written, over a
\* registry file that holds another entry set
C7_Witness ==
    /\ last.op = "crash"
    /\ regFile.exists
    /\ regFile.content # <<>>
    /\ Range(regFile.content) # Range(last.s)
    /\ tmpFile.exists
    /\ 0 < Len(tmpFile.content)
    /\ Len(tmpFile.content) < Len(last.s)

----------------------------------------------------------------------------
(* C11 - C15 *)

\* C11: get(name, dst) returns an error, creates nothing and changes neither
\* the registry nor the object store when dst does not exist, when dst is a
\* regular file, or when no root entry is named name; a bad dst is reported
\* whether or not the name is registered (dst is checked first).
C11_GetRejects ==
    last.op = "get" =>
        /\ (last.dst = "missing") => (~last.ok /\ last.err = "dst not exits")
        /\ (last.dst = "file") => (~last.ok /\ last.err = "dst is a file")
        /\ (last.dst = "dir" /\ Named(last.data0, last.name) = {})
              => (~last.ok /\ last.err = "name not exists")
        /\ (last.dst # "dir" \/ Named(last.data0, last.name) = {})
              => (last.made = NoEntry /\ data = last.data0 /\ objects = last.objects0)

\* a get into a missing destination of a name that is not registered either,
\* on a store that holds entries and objects
C11_Witness ==
    /\ last.op = "get"
    /\ last.dst = "missing"
    /\ Named(last.data0, last.name) = {}
    /\ last.err = "dst not exits"
    /\ data # {}
    /\ DOMAIN objects # {}

\* C12: save then load is the identity on the in-memory registry.  A save
\* that returned Ok leaves a registry file holding exactly the entries of the
\* registry, once each; a load that directly follows it on the same Store
\* leaves the registry as it was; and a load into an empty registry (a fresh
\* Store) yields exactly the entries of the file.
C12_SaveLoadIdentity ==
    [][ /\ (last'.op = "save" /\ last'.ok) =>
              /\ Range(regFile'.content) = data'
              /\ Len(regFile'.content) = Cardinality(data')
        /\ (last.op = "save" /\ last.ok /\ last'.op = "load") =>
              /\ data' = data
              /\ Cardinality(data') = Len(regFile.content)
        /\ (last'.op = "load" /\ data = {} /\ regFile.exists) =>
              data' = Range(regFile.content)
      ]_vars

\* a load on a Store whose registry of two roots is what the file holds
C12_Witness ==
    /\ last.op = "load"
    /\ last.file0.exists
    /\ Range(last.file0.content) = last.data0
    /\ Cardinality(last.data0) = 2
    /\ data = last.data0
    /\ \E r \in data : r.meta.kind = "DIRECTORY" /\ r.meta.vec # <<>>

\* C13: when the deletion of an unreferenced object fails inside clear(),
\* the failure is reported and the sweep goes on: every other unreferenced
\* object whose deletion can succeed is gone when clear() returns.
C13_SweepContinues ==
    ( /\ last.op = "clear"
      /\ last.stuck \cap (DOMAIN last.objects0 \ Referenced(last.data0)) # {} )
    => /\ ~last.ok
       /\ (DOMAIN objects \ Referenced(data)) \subseteq last.stuck

\* C14: when linking fails in the middle of an add, no registry entry is
\* inserted and the objects linked before the failure are orphans: no File
\* node of the in-memory registry references them (so a clear() that returns
\* Ok removes them all).
C14_OrphansUnreferenced ==
    (last.op = "add" /\ ~last.ok) =>
        /\ data = last.data0
        /\ (DOMAIN objects \ DOMAIN last.objects0) \cap Referenced(data) = {}

\* C15: if an entry below the source path cannot be read while the tree is
\* walked, build aborts, add returns the error and the registry is not
\* changed: no tree that leaves the unreadable entry out is ever registered.
C15_BuildAborts ==
    ( /\ last.op = "add"
      /\ SrcFS(last.path).kind # "none"
      /\ Named(last.data0, last.name) = {}
      /\ HasUnreadable(SrcFS(last.path)) )
    => /\ ~last.ok
       /\ data = last.data0

----------------------------------------------------------------------------
(* C16, C17: two processes *)

\* C16: lost update.  The registry file a save leaves is exactly the entry
\* set of the process that saved: a root that the other process saved
\* before, and that the saver does not hold, is no longer in the file.  So
\* when both processes load, each adds its own root and both save, the file
\* holds the last writer's set and the earlier writer's root is gone.
C16_LastWriterWins ==
    (last.op = "save" /\ last.ok) =>
        /\ Range(regFile.content) = StoreOf(last.by)
        /\ \A r \in hist.saved[Other(last.by)].set :
              Named(StoreOf(last.by), r.name) = {}
                 => Named(Range(regFile.content), r.name) = {}

\* both processes have loaded, A has added a root and saved it with Ok, B has
\* added another root and saved last: the file holds B's root and not A's
C16_Witness ==
    /\ last.op = "save" /\ last.by = "B" /\ last.ok
    /\ hist.loaded["A"] /\ hist.loaded["B"]
    /\ hist.saved["A"].done
    /\ \E a \in hist.saved["A"].set :
          /\ a.name \in hist.added["A"]
          /\ Named(Range(regFile.content), a.name) = {}
          /\ \E b \in Range(regFile.content) :
                b.name \in hist.added["B"] /\ b.name # a.name
    /\ hist.linked["A"] \cup hist.linked["B"] \subseteq DOMAIN objects

\* C17: clear/add race.  A clear that returns Ok keeps exactly the objects
\* that the registry of the process calling it references: an object that
\* only the other process's registry references is deleted.  So an object
\* linked by A's add can be deleted by B's clear before A saves, and A's save
\* then persists an entry whose File digest has no object.
C17_ClearSeesOwnRegistry ==
    (last.op = "clear" /\ last.ok) =>
        /\ DOMAIN objects = DOMAIN last.objects0 \cap Referenced(StoreOf(last.by))
        /\ \A x \in Referenced(StoreOf(Other(last.by))) :
              x \notin Referenced(StoreOf(last.by)) => x \notin DOMAIN objects

\* A's add linked an object, B's clear deleted it while A's registry
\* referenced it, and A's save has returned Ok: the file references a digest
\* without an object
C17_Witness ==
    /\ last.op = "save" /\ last.by = "A" /\ last.ok
    /\ \E x \in hist.swept["B"] :
          /\ x \in hist.linked["A"]
          /\ x \in Referenced(Range(regFile.content))
          /\ x \notin DOMAIN objects

----------------------------------------------------------------------------
(* C18, C19: registry and object store, one process *)

\* C18: referential integrity.  After any sequence of new, load, add, delete,
\* save and clear on an initially empty home, every digest of a File node
\* reachable from the in-memory registry names an object of the store, and a
\* get of a registered name into an existing directory does not fail.
C18_ReferentialIntegrity ==
    /\ Referenced(data) \subseteq DOMAIN objects
    /\ (last.op = "get" /\ last.dst = "dir" /\ Named(data, last.name) # {}) => last.ok

\* C19: clear() deletes no object that a File node of the registry file
\* references, whatever the in-memory registry of the Store it is called on.
C19_ClearKeepsPersisted ==
    last.op = "clear" =>
        \A x \in Referenced(Range(last.file0.content)) :
            x \in DOMAIN last.objects0 => x \in DOMAIN objects

====
